---- MODULE Spec2Model ----
(***************************************************************************)
(* A model of input-lib (src/src/lib.rs): the macros input! and inputln!,  *)
(* and read_input_from, which optionally prints a prompt, reads one line   *)
(* from a BufRead source, trims the trailing line terminators and parses   *)
(* the rest into the target type T.                                        *)
(*                                                                         *)
(* Text is a sequence of one-character strings.  A call of                 *)
(* read_input_from is followed statement by statement through pc, so that  *)
(* the order of the prompt, the flush, the line read and the parse can be  *)
(* observed.  Option values are sequences of length 0 (None) or 1 (Some).  *)
(***************************************************************************)
EXTENDS Naturals, Sequences, FiniteSets

\* Longest source text (in characters) the model feeds to the reader.
MaxSrcLen == 4

CR == "\r"
LF == "\n"

\* The characters of the model's texts: a digit, a blank, and the two
\* terminator characters.
Char == {"7", " ", CR, LF}

Digits == {"7"}

RECURSIVE SeqsUpTo(_, _)
SeqsUpTo(S, n) ==
    IF n = 0 THEN {<<>>}
    ELSE LET shorter == SeqsUpTo(S, n - 1)
         IN  shorter \cup {Append(s, c) : s \in {t \in shorter : Len(t) = n - 1}, c \in S}

Sources == SeqsUpTo(Char, MaxSrcLen)

None == <<>>
Some(x) == <<x>>

\* enum PrintStyle
PrintStyle == {"Continue", "NewLine"}

\* The target types T the model instantiates read_input_from with.
Types == {"String", "u8"}

U8Max == 255

\* The macro arguments of a prompted invocation: a format string (a sequence
\* of pieces, "{}" being a placeholder) and the values for its placeholders.
MacroArgs ==
    { [fmt |-> <<"?">>, vals |-> <<>>],
      [fmt |-> <<"{}", ":">>, vals |-> << <<"A", "b">> >>] }

\* What a macro invocation is given: nothing, or format arguments.
Invocations == {None} \cup {Some(a) : a \in MacroArgs}

VARIABLES
    stdin,        \* the bytes the source still holds
    consumed,     \* the bytes the source has handed out so far
    read_failed,  \* some read_line so far returned an I/O error
    nOkParse,     \* number of returned calls whose outcome was Ok or Parse
    pc,           \* position of the current call
    entry,        \* "input", "inputln" or "read_input_from"
    args,         \* what the macro was invoked with (None for a direct call)
    prompt,       \* Option<Arguments>
    print_style,  \* PrintStyle
    T,            \* the target type
    out,          \* text written to standard output by this call
    visible,      \* text of this call that a flush has pushed out
    flushes,      \* number of flushes of standard output by this call
    reads,        \* number of read_line calls by this call
    input,        \* the String buffer of the call
    bytes_read,   \* Option<usize>: what read_line returned
    trimmed,      \* Option<text>: the text handed to T's parser
    result        \* Option<outcome>: what the call returned

vars == <<stdin, consumed, read_failed, nOkParse, pc, entry, args, prompt,
          print_style, T, out, visible, flushes, reads, input, bytes_read,
          trimmed, result>>

\* -------------------------------------------------------------------------
\* Outcomes: Result<T, InputError<T::Err>>
\* -------------------------------------------------------------------------
Ok(text, num)  == [tag |-> "Ok",    text |-> text, num |-> num, err |-> "none"]
ErrParse(e)    == [tag |-> "Parse", text |-> <<>>, num |-> 0,   err |-> e]
ErrIo(where)   == [tag |-> "Io",    text |-> <<>>, num |-> 0,   err |-> where]
ErrEof         == [tag |-> "Eof",   text |-> <<>>, num |-> 0,   err |-> "none"]

\* -------------------------------------------------------------------------
\* Pure functions
\* -------------------------------------------------------------------------

\* format_args!: the format string with each placeholder replaced by the
\* next value.
RECURSIVE Format(_, _)
Format(fmt, vals) ==
    IF fmt = <<>> THEN <<>>
    ELSE IF Head(fmt) = "{}"
         THEN Head(vals) \o Format(Tail(fmt), Tail(vals))
         ELSE <<Head(fmt)>> \o Format(Tail(fmt), vals)

\* PromptText with println! in both arms (used to show C6 depends on the
\* style).
PromptText_AlwaysNewline(a, style) == Format(a.fmt, a.vals) \o <<LF>>

\* print!("{}", prompt_args) under Continue, println!("{}", prompt_args)
\* under NewLine: the text the call sends to standard output.
PromptText(a, style) ==
    IF style = "Continue"
    THEN Format(a.fmt, a.vals)
    ELSE Format(a.fmt, a.vals) \o <<LF>>

\* read_line stopping in front of the line feed instead of behind it (used
\* to show C9 depends on where a line ends).
RECURSIVE read_line_StopsBeforeLF(_)
read_line_StopsBeforeLF(s) ==
    IF s = <<>> \/ Head(s) = LF THEN <<>>
    ELSE <<Head(s)>> \o read_line_StopsBeforeLF(Tail(s))

\* BufRead::read_line: the bytes up to and including the next line feed, or
\* all remaining bytes when there is none.
RECURSIVE read_line(_)
read_line(s) ==
    IF s = <<>> THEN <<>>
    ELSE IF Head(s) = LF THEN <<LF>>
         ELSE <<Head(s)>> \o read_line(Tail(s))

Drop(s, n) == SubSeq(s, n + 1, Len(s))

\* Trimming as strip_suffix('\n') would: at most one trailing line feed
\* (used to show C2 depends on the trim).
trim_end_matches_OneLF(s) ==
    IF s # <<>> /\ s[Len(s)] = LF THEN SubSeq(s, 1, Len(s) - 1) ELSE s

\* Trimming as trim_end() would: trailing blanks go as well (used to show C3
\* depends on the set of trimmed characters).
RECURSIVE trim_end_matches_AllWhitespace(_)
trim_end_matches_AllWhitespace(s) ==
    IF s # <<>> /\ s[Len(s)] \in {CR, LF, " "}
    THEN trim_end_matches_AllWhitespace(SubSeq(s, 1, Len(s) - 1))
    ELSE s

\* str::trim_end_matches(['\r', '\n']): drops trailing characters while they
\* match.
RECURSIVE trim_end_matches(_)
trim_end_matches(s) ==
    IF s # <<>> /\ s[Len(s)] \in {CR, LF}
    THEN trim_end_matches(SubSeq(s, 1, Len(s) - 1))
    ELSE s

DigitVal(c) == IF c = "7" THEN 7 ELSE 0

\* The decimal value of a digit string, or U8Max + 1 once it exceeds U8Max.
RECURSIVE Decimal(_, _)
Decimal(s, acc) ==
    IF s = <<>> THEN acc
    ELSE LET v == acc * 10 + DigitVal(Head(s))
         IN  IF v > U8Max THEN U8Max + 1 ELSE Decimal(Tail(s), v)

\* <T as FromStr>::from_str.  String accepts every text; u8 accepts the
\* digit strings whose value fits and rejects the rest with the kind of
\* ParseIntError (Empty, InvalidDigit, PosOverflow).  A leading "+", which
\* u8 also accepts, is not among the model's characters.
from_str(t, s) ==
    IF t = "String" THEN [ok |-> TRUE, text |-> s, num |-> 0, err |-> "none"]
    ELSE IF s = <<>>
         THEN [ok |-> FALSE, text |-> <<>>, num |-> 0, err |-> "Empty"]
    ELSE IF \E i \in 1..Len(s) : s[i] \notin Digits
         THEN [ok |-> FALSE, text |-> <<>>, num |-> 0, err |-> "InvalidDigit"]
    ELSE IF Decimal(s, 0) > U8Max
         THEN [ok |-> FALSE, text |-> <<>>, num |-> 0, err |-> "PosOverflow"]
    ELSE [ok |-> TRUE, text |-> <<>>, num |-> Decimal(s, 0), err |-> "none"]

\* Parsing with the parser's error replaced by a fixed one (used to show C4
\* depends on the error being passed through).
ParseOutcome_FixedError(t, s) ==
    LET r == from_str(t, s)
    IN  IF r.ok THEN Ok(r.text, r.num) ELSE ErrParse("InvalidDigit")

\* trimmed.parse::<T>().map_err(InputError::Parse)
ParseOutcome(t, s) ==
    LET r == from_str(t, s)
    IN  IF r.ok THEN Ok(r.text, r.num) ELSE ErrParse(r.err)

\* -------------------------------------------------------------------------
\* The macros: which prompt and style each arm passes to read_input_from
\* -------------------------------------------------------------------------

\* input!(): None; input!(args): Some(format_args!(args)).
input_prompt(a) == a

\* inputln!(): None; inputln!(args): None as well.
inputln_prompt(a) == None

\* -------------------------------------------------------------------------
\* State machine
\* -------------------------------------------------------------------------

Init ==
    /\ stdin \in Sources
    /\ consumed = <<>>
    /\ read_failed = FALSE
    /\ nOkParse = 0
    /\ pc = "idle"
    /\ entry = "none"
    /\ args = None
    /\ prompt = None
    /\ print_style = "Continue"
    /\ T = "String"
    /\ out = <<>>
    /\ visible = <<>>
    /\ flushes = 0
    /\ reads = 0
    /\ input = <<>>
    /\ bytes_read = None
    /\ trimmed = None
    /\ result = None

\* Entering with the flush outside the `if let` (used to show C8 depends on
\* the flush being conditional).
AfterEntry_AlwaysFlush(p) == IF p # None THEN "print" ELSE "flush"

\* `if let Some(prompt_args) = prompt`: the prompt is printed and flushed
\* only when there is one; otherwise the call goes straight to the read.
AfterEntry(p) == IF p # None THEN "print" ELSE "read_line"

\* input!: read_input_from(stdin, None or Some(format_args!(..)), Continue)
InputMacro ==
    /\ pc = "idle"
    /\ \E a \in Invocations, t \in Types :
          /\ entry' = "input"
          /\ args' = a
          /\ prompt' = input_prompt(a)
          /\ print_style' = "Continue"
          /\ T' = t
          /\ pc' = AfterEntry(input_prompt(a))
    /\ UNCHANGED <<stdin, consumed, read_failed, nOkParse, out, visible,
                   flushes, reads, input, bytes_read, trimmed, result>>

\* inputln!: read_input_from(stdin, None, NewLine) in both arms
InputlnMacro ==
    /\ pc = "idle"
    /\ \E a \in Invocations, t \in Types :
          /\ entry' = "inputln"
          /\ args' = a
          /\ prompt' = inputln_prompt(a)
          /\ print_style' = "NewLine"
          /\ T' = t
          /\ pc' = AfterEntry(inputln_prompt(a))
    /\ UNCHANGED <<stdin, consumed, read_failed, nOkParse, out, visible,
                   flushes, reads, input, bytes_read, trimmed, result>>

\* A direct call of the public function read_input_from.
DirectCall ==
    /\ pc = "idle"
    /\ \E p \in Invocations, style \in PrintStyle, t \in Types :
          /\ entry' = "read_input_from"
          /\ args' = None
          /\ prompt' = p
          /\ print_style' = style
          /\ T' = t
          /\ pc' = AfterEntry(p)
    /\ UNCHANGED <<stdin, consumed, read_failed, nOkParse, out, visible,
                   flushes, reads, input, bytes_read, trimmed, result>>

\* print! / println!: the text reaches standard output, or the macro panics
\* because the write failed.
PrintPrompt ==
    /\ pc = "print"
    /\ \E ok \in BOOLEAN :
          IF ok
          THEN /\ out' = out \o PromptText(prompt[1], print_style)
               /\ pc' = "flush"
          ELSE /\ out' = out
               /\ pc' = "panicked"
    /\ UNCHANGED <<stdin, consumed, read_failed, nOkParse, entry, args, prompt,
                   print_style, T, visible, flushes, reads, input, bytes_read,
                   trimmed, result>>

\* io::stdout().flush().map_err(InputError::Io)?
Flush ==
    /\ pc = "flush"
    /\ flushes' = flushes + 1
    /\ \E ok \in BOOLEAN :
          IF ok
          THEN /\ visible' = out
               /\ result' = None
               /\ pc' = "read_line"
          ELSE /\ visible' = visible
               /\ result' = Some(ErrIo("flush"))
               /\ pc' = "done"
    /\ UNCHANGED <<stdin, consumed, read_failed, nOkParse, entry, args, prompt,
                   print_style, T, out, reads, input, bytes_read, trimmed>>

\* reader.read_line(&mut input) returning Ok(n).
ReadLineOk ==
    /\ pc = "read_line"
    /\ LET line == read_line(stdin)
       IN  /\ input' = line
           /\ bytes_read' = Some(Len(line))
           /\ stdin' = Drop(stdin, Len(line))
           /\ consumed' = consumed \o line
    /\ reads' = reads + 1
    /\ pc' = "parse"
    /\ UNCHANGED <<read_failed, nOkParse, entry, args, prompt, print_style, T,
                   out, visible, flushes, trimmed, result>>

\* reader.read_line(&mut input) returning Err(e): `?` returns Err(Io(e)).  The
\* source may have handed out any part of the line before it failed.
ReadLineErr ==
    /\ pc = "read_line"
    /\ \E n \in 0..Len(read_line(stdin)) :
          /\ stdin' = Drop(stdin, n)
          /\ consumed' = consumed \o SubSeq(stdin, 1, n)
    /\ reads' = reads + 1
    /\ read_failed' = TRUE
    /\ result' = Some(ErrIo("read_line"))
    /\ pc' = "done"
    /\ UNCHANGED <<nOkParse, entry, args, prompt, print_style, T, out, visible,
                   flushes, input, bytes_read, trimmed>>

\* Finish with the end-of-input test made on the trimmed text instead of on
\* bytes_read (used to show C1 depends on the test).
Finish_EofOnEmptyText ==
    /\ pc = "parse"
    /\ IF trim_end_matches(input) = <<>>
       THEN /\ trimmed' = None
            /\ result' = Some(ErrEof)
       ELSE /\ trimmed' = Some(trim_end_matches(input))
            /\ result' = Some(ParseOutcome(T, trim_end_matches(input)))
    /\ pc' = "done"
    /\ UNCHANGED <<stdin, consumed, read_failed, nOkParse, entry, args, prompt,
                   print_style, T, out, visible, flushes, reads, input,
                   bytes_read>>

\* `if bytes_read == 0 { return Err(Eof) }`, then trim and parse.
Finish ==
    /\ pc = "parse"
    /\ IF bytes_read[1] = 0
       THEN /\ trimmed' = None
            /\ result' = Some(ErrEof)
       ELSE /\ trimmed' = Some(trim_end_matches(input))
            /\ result' = Some(ParseOutcome(T, trim_end_matches(input)))
    /\ pc' = "done"
    /\ UNCHANGED <<stdin, consumed, read_failed, nOkParse, entry, args, prompt,
                   print_style, T, out, visible, flushes, reads, input,
                   bytes_read>>

\* The call has returned; the caller goes on and the locals are gone.
Return ==
    /\ pc = "done"
    /\ nOkParse' = IF result[1].tag \in {"Ok", "Parse"} THEN nOkParse + 1 ELSE nOkParse
    /\ pc' = "idle"
    /\ entry' = "none"
    /\ args' = None
    /\ prompt' = None
    /\ print_style' = "Continue"
    /\ T' = "String"
    /\ out' = <<>>
    /\ visible' = <<>>
    /\ flushes' = 0
    /\ reads' = 0
    /\ input' = <<>>
    /\ bytes_read' = None
    /\ trimmed' = None
    /\ result' = None
    /\ UNCHANGED <<stdin, consumed, read_failed>>

Next ==
    \/ InputMacro
    \/ InputlnMacro
    \/ DirectCall
    \/ PrintPrompt
    \/ Flush
    \/ ReadLineOk
    \/ ReadLineErr
    \/ Finish
    \/ Return

Spec == Init /\ [][Next]_vars

\* -------------------------------------------------------------------------
\* Vocabulary of the properties, stated without the operators above
\* -------------------------------------------------------------------------

Terminators == {CR, LF}

\* t is line without its maximal trailing run of CR and LF.
IsTrimOf(t, line) ==
    /\ Len(t) <= Len(line)
    /\ t = SubSeq(line, 1, Len(t))
    /\ \A i \in (Len(t) + 1)..Len(line) : line[i] \in Terminators
    /\ t = <<>> \/ t[Len(t)] \notin Terminators

Prefixes(line) == {SubSeq(line, 1, n) : n \in 0..Len(line)}

\* The positions at which a line of s ends: every line feed, and the last
\* character when it is not a line feed.
LineEnds(s) ==
    {i \in 1..Len(s) : s[i] = LF}
        \cup (IF s # <<>> /\ s[Len(s)] # LF THEN {Len(s)} ELSE {})

NumLines(s) == Cardinality(LineEnds(s))

\* Where the k-th line of s ends (0 for k = 0).
LineEnd(s, k) ==
    IF k = 0 THEN 0
    ELSE CHOOSE e \in LineEnds(s) : Cardinality({c \in LineEnds(s) : c <= e}) = k

\* The k-th line of s, its line feed included.
NthLine(s, k) == SubSeq(s, LineEnd(s, k - 1) + 1, LineEnd(s, k))

\* The whole text of the source, as it was before the first call.
Source0 == consumed \o stdin

Returned == pc = "done"
LineObtained == bytes_read # None /\ bytes_read[1] > 0
ReadBegun == pc = "read_line" \/ reads > 0

\* The text a prompted invocation with arguments a is to show.
Shown(a) == Format(a.fmt, a.vals)

\* -------------------------------------------------------------------------
\* C1: a call returns Err(Eof) exactly when its line read obtained zero
\* bytes, which happens exactly when the source was exhausted; a line that
\* is empty but terminated is handed to the parser as the empty text and the
\* call returns Ok or Err(Parse) as the parser decides.
\* -------------------------------------------------------------------------
C1_EofIffZeroBytes ==
    /\ Returned =>
          /\ (result[1].tag = "Eof") <=> (bytes_read = Some(0))
          /\ bytes_read # None => bytes_read[1] = Len(input)
          /\ bytes_read = Some(0) => stdin = <<>>
    /\ Returned /\ bytes_read # None /\ input \in {<<LF>>, <<CR, LF>>} =>
          /\ trimmed = Some(<<>>)
          /\ result[1].tag = (IF from_str(T, <<>>).ok THEN "Ok" ELSE "Parse")

C1_Witness ==
    /\ Returned
    /\ input = <<CR, LF>>
    /\ T = "u8"
    /\ result[1].tag = "Parse"

\* -------------------------------------------------------------------------
\* C2 as stated: for every s holding no "\n" and no "\r\n" that T's parser
\* accepts, a call that read s followed by "\n" or "\r\n" returns Ok of the
\* parser's value for s.
\* -------------------------------------------------------------------------
NoTerminatorIn(s) == \A i \in 1..Len(s) : s[i] # LF

AcceptedLine(s, line) ==
    /\ NoTerminatorIn(s)
    /\ line \in {s \o <<LF>>, s \o <<CR, LF>>}

C2_Original ==
    Returned /\ LineObtained =>
        \A s \in Prefixes(input) :
            AcceptedLine(s, input) /\ from_str(T, s).ok =>
                result[1] = Ok(from_str(T, s).text, from_str(T, s).num)

\* C2 as amended: the same for every s that in addition does not end in
\* "\r".
C2_Amended ==
    Returned /\ LineObtained =>
        \A s \in Prefixes(input) :
            /\ AcceptedLine(s, input)
            /\ s = <<>> \/ s[Len(s)] # CR
            /\ from_str(T, s).ok
            => result[1] = Ok(from_str(T, s).text, from_str(T, s).num)

C2_Witness ==
    /\ Returned
    /\ input = <<" ", "7", CR, LF>>
    /\ T = "String"
    /\ result[1] = Ok(<<" ", "7">>, 0)

\* -------------------------------------------------------------------------
\* C3: the text handed to the parser is the obtained line without its
\* maximal trailing run of CR and LF, everything else unchanged; it is
\* handed over whenever a line was obtained.
\* -------------------------------------------------------------------------
C3_TrimsOnlyTrailingTerminators ==
    /\ trimmed # None => LineObtained /\ IsTrimOf(trimmed[1], input)
    /\ Returned /\ LineObtained => trimmed # None

C3_Witness ==
    /\ input = <<CR, " ", CR, LF>>
    /\ trimmed = Some(<<CR, " ">>)

\* -------------------------------------------------------------------------
\* C4: when a line was obtained and the parser rejects its trimmed text with
\* error e, the call returns Err(Parse(e)) with that very e; and Err(Parse)
\* is returned in no other case.
\* -------------------------------------------------------------------------
C4_ParseErrorCarried ==
    Returned =>
        /\ LineObtained =>
              \A t \in Prefixes(input) :
                  IsTrimOf(t, input) /\ ~from_str(T, t).ok =>
                      result[1] = ErrParse(from_str(T, t).err)
        /\ result[1].tag = "Parse" =>
              /\ LineObtained
              /\ \E t \in Prefixes(input) :
                    IsTrimOf(t, input) /\ ~from_str(T, t).ok

C4_Witness ==
    /\ Returned
    /\ T = "u8"
    /\ input = <<"7", "7", "7", LF>>
    /\ result[1] = ErrParse("PosOverflow")

\* -------------------------------------------------------------------------
\* C5: with a prompt present, a failure of the write of the prompt or of the
\* flush makes the call return Err(Io), a value and not an abort, and no
\* line is read.
\* -------------------------------------------------------------------------
PromptIoFailed ==
    \/ pc = "panicked"
    \/ Returned /\ prompt # None /\ visible # PromptText(prompt[1], print_style)

C5_PromptFailureIsIo ==
    PromptIoFailed =>
        /\ Returned
        /\ result[1].tag = "Io"
        /\ reads = 0

\* -------------------------------------------------------------------------
\* C6: with a prompt, once the line read begins the prompt text has been
\* written and flushed: exactly the prompt text under Continue, the prompt
\* text and one line feed under NewLine.
\* -------------------------------------------------------------------------
C6_PromptFlushedBeforeRead ==
    prompt # None /\ ReadBegun =>
        /\ flushes = 1
        /\ visible = out
        /\ print_style = "Continue" => visible = Shown(prompt[1])
        /\ print_style = "NewLine" => visible = Shown(prompt[1]) \o <<LF>>

C6_Witness ==
    /\ prompt = Some([fmt |-> <<"{}", ":">>, vals |-> << <<"A", "b">> >>])
    /\ print_style = "NewLine"
    /\ pc = "read_line"
    /\ visible = <<"A", "b", ":", LF>>

\* -------------------------------------------------------------------------
\* C7: inputln! invoked with prompt arguments shows the formatted prompt
\* text and a line feed before it reads, as input! shows the same text
\* without the line feed.
\* -------------------------------------------------------------------------
C7_InputlnShowsPrompt ==
    args # None /\ ReadBegun =>
        /\ entry = "input" => visible = Shown(args[1])
        /\ entry = "inputln" => visible = Shown(args[1]) \o <<LF>>

\* -------------------------------------------------------------------------
\* C8: without a prompt the call writes nothing and flushes nothing, under
\* either style, and what it returns is decided by the read and the parser
\* alone.
\* -------------------------------------------------------------------------
C8_NoPromptNoOutput ==
    pc # "idle" /\ prompt = None =>
        /\ out = <<>>
        /\ visible = <<>>
        /\ flushes = 0
        /\ pc # "print" /\ pc # "flush"
        /\ Returned =>
              /\ reads = 1
              /\ bytes_read = None => result[1] = ErrIo("read_line")
              /\ bytes_read = Some(0) => result[1] = ErrEof
              /\ LineObtained =>
                    \E t \in Prefixes(input) :
                        /\ IsTrimOf(t, input)
                        /\ result[1].tag = (IF from_str(T, t).ok THEN "Ok" ELSE "Parse")

C8_Witness ==
    /\ Returned
    /\ prompt = None
    /\ print_style = "NewLine"
    /\ entry = "read_input_from"
    /\ result[1] = Ok(<<"7">>, 0)

\* -------------------------------------------------------------------------
\* C9: a call reads at most one line; a successful read takes exactly the
\* next line of the source (through its line feed, or all that is left) and
\* a call that does not read takes nothing.  So, as long as no read has
\* failed, the call that follows k-1 calls that returned Ok or Parse obtains
\* line k of the source, and once all n lines are taken a read obtains zero
\* bytes and the call returns Err(Eof).
\* -------------------------------------------------------------------------
C9_OneLinePerCall ==
    /\ reads <= 1
    /\ ~read_failed =>
          LET n == NumLines(Source0)
              k == nOkParse + 1
          IN  /\ nOkParse <= n
              /\ bytes_read = None => Len(consumed) = LineEnd(Source0, nOkParse)
              /\ bytes_read # None /\ k <= n =>
                    /\ input = NthLine(Source0, k)
                    /\ Len(consumed) = LineEnd(Source0, k)
              /\ bytes_read # None /\ k > n =>
                    /\ bytes_read = Some(0)
                    /\ stdin = <<>>
                    /\ Returned => result[1] = ErrEof

C9_Witness ==
    /\ Returned
    /\ ~read_failed
    /\ Source0 = <<"7", LF, " ", LF>>
    /\ nOkParse = 1
    /\ T = "u8"
    /\ input = <<" ", LF>>
    /\ result[1] = ErrParse("InvalidDigit")

\* -------------------------------------------------------------------------
\* C10: every call ends in exactly one of Ok, Err(Io), Err(Parse) and
\* Err(Eof), decided by the first failure in the order prompt I/O, read I/O
\* or end of input, parse; a failed read is always Err(Io).
\* -------------------------------------------------------------------------
C10_FourOutcomesInOrder ==
    /\ pc # "panicked"
    /\ Returned =>
          /\ result[1].tag \in {"Ok", "Io", "Parse", "Eof"}
          /\ result[1] = ErrIo("flush") => reads = 0 /\ trimmed = None
          /\ reads = 1 /\ bytes_read = None =>
                result[1] = ErrIo("read_line") /\ trimmed = None
          /\ result[1].tag = "Eof" => trimmed = None
          /\ result[1].tag \in {"Ok", "Parse"} => trimmed # None

====
